---- MODULE Spec2Model ----
(***************************************************************************)
(* Model of the LV2 example metronome, plugins/eg-metro.lv2/metro.c.       *)
(*                                                                         *)
(* The plugin instance (struct Metro) is the record `self`; the host's     *)
(* audio buffer is `output`.  run() is a process whose position is `pc`:   *)
(* it walks the control sequence event by event, calling play() for the    *)
(* slice before each event, update_position() for the event, and play()    *)
(* for the tail.  play() advances one frame per step.                      *)
(*                                                                         *)
(* Floating point.  Tempi range over floats of the form 60 * 2^k and bar   *)
(* positions over multiples of 1/BeatDen, sample rates over small          *)
(* integers.  For these every float and double operation of the code is    *)
(* exact (60/bpm is a power of two, every product has fewer than 24        *)
(* significant bits), so the integer quotients below are the values the    *)
(* code computes, truncation included.                                     *)
(*                                                                         *)
(* Integer width.  The counters are uint32_t.  MaxFrames bounds the frames *)
(* played since activate and the rates and tempi bound every other value   *)
(* far below 2^32, and run is called with non-decreasing event times, so   *)
(* no operation below wraps and the integers are written without a modulus.*)
(***************************************************************************)
EXTENDS Integers, Sequences, FiniteSets, TLC

\* ---------------------------------------------------------------- bounds
MaxBlock == 2
MaxEvents == 2
MaxFrames == 4
MaxRate == 1800
MaxTick == 150

\* ------------------------------------------------------- program constants
DefaultBpm == 120
AttackMs == 5
DecayMs == 75
ToneFreq == 880
BeatDen == 128

Rates == {1760}
Bpms == {120, 1920, 30720}
Speeds == {0, 1}
BarBeats == {1, 127, 148}

STATE_ATTACK == "ATTACK"
STATE_DECAY == "DECAY"
STATE_OFF == "OFF"
States == {STATE_ATTACK, STATE_DECAY, STATE_OFF}

\* A field of a time:Position object that is missing or not an atom:Float.
Absent == -1

\* The bodies an event can carry: a time:Position object with any subset of
\* the three fields, or any other atom.
Positions == [bpm : Bpms \cup {Absent}, speed : Speeds \cup {Absent}, beat : BarBeats \cup {Absent}]
NoPosition == [bpm |-> Absent, speed |-> Absent, beat |-> Absent]
Bodies == [position : {TRUE}, obj : Positions] \cup [position : {FALSE}, obj : {NoPosition}]

VARIABLES
    self,            \* the Metro instance
    output,          \* the host's buffer that ports.output points to
    pc,              \* "idle", "events" (head of run's loop), "play", "update", "done"
    sample_count,    \* run's argument
    last_t,          \* run's local
    tail,            \* TRUE when the play() in progress is the one after the loop
    begin,           \* play's arguments and locals
    end,
    i,
    frames_per_beat,
    \* history of the block in progress, for stating the properties
    writes,          \* how often each output index was written in this block
    writer,          \* number of events applied when each index was last written
    times,           \* frame offsets of the events handled so far in this block
    stopped,         \* speed was 0 at the call of run and no event has made it nonzero
    held,            \* the cursor at the call of run, kept while the transport has
                     \* been stopped and no bar position has arrived; Gone after
    frames,          \* frames played (speed # 0) since activate
    quiet,           \* frames played since the last start of a tick, the last event
                     \* that changed the instance, or activate
    steady,          \* no tempo change and no resync since activate
    last             \* the last step taken

vars == <<self, output, pc, sample_count, last_t, tail, begin, end, i, frames_per_beat,
          writes, writer, times, stopped, held, frames, steady, last, quiet>>

Indices == 0..(MaxBlock - 1)

\* ------------------------------------------------------------ instantiate
\* (uint32_t) of the quotient n / d: the fraction is dropped, towards zero.
\* (Below -1 the conversion is undefined; no rate drawn here goes there.)
Truncated(n, d) == IF n >= 0 THEN n \div d ELSE 0 - ((0 - n) \div d)

attack_len(rate) == Truncated(AttackMs * rate, 1000)
decay_len(rate) == Truncated(DecayMs * rate, 1000)

\* The table length rounded to the nearest integer.
wave_len_rounded(rate) == Truncated(2 * rate + ToneFreq, 2 * ToneFreq)

wave_len(rate) == Truncated(rate, ToneFreq)

instantiate(rate) ==
    [rate |-> rate, bpm |-> DefaultBpm, speed |-> 0,
     elapsed_len |-> 0, wave_offset |-> 0, state |-> STATE_OFF,
     wave_len |-> wave_len(rate), attack_len |-> attack_len(rate),
     decay_len |-> decay_len(rate)]

\* ------------------------------------------------------------------ play
\* const uint32_t frames_per_beat = 60.0f / self->bpm * self->rate;
PlayFramesPerBeat(bpm, rate) == (60 * rate) \div bpm

\* A sample is kept as the product the code computes: the wave table index
\* and the envelope gain as a fraction.  wave[0] is sin(0) = 0; the other
\* entries of the table are not zero.
Silence == [w |-> 0, num |-> 0, den |-> 1]
IsZero(s) == s.w = 0 \/ s.num = 0

\* The value written to output[i] by the switch.
Sample(m) ==
    CASE m.state = STATE_ATTACK ->
           [w |-> m.wave_offset, num |-> m.elapsed_len, den |-> m.attack_len]
      [] m.state = STATE_DECAY ->
           [w |-> m.wave_offset,
            num |-> m.decay_len - (m.elapsed_len - m.attack_len),
            den |-> m.decay_len]
      [] OTHER -> Silence

\* The switch with the decay left out.
EnvelopeSkipDecay(st, elapsed, attack, decay) ==
    CASE st = STATE_ATTACK -> IF elapsed >= attack THEN STATE_OFF ELSE STATE_ATTACK
      [] st = STATE_DECAY -> IF elapsed >= attack + decay THEN STATE_OFF ELSE STATE_DECAY
      [] OTHER -> STATE_OFF

\* The switch leaving a phase one frame late.
EnvelopeLate(st, elapsed, attack, decay) ==
    CASE st = STATE_ATTACK -> IF elapsed > attack THEN STATE_DECAY ELSE STATE_ATTACK
      [] st = STATE_DECAY -> IF elapsed > attack + decay THEN STATE_OFF ELSE STATE_DECAY
      [] OTHER -> STATE_OFF

\* The switch leaving a phase one frame early.
EnvelopeEager(st, elapsed, attack, decay) ==
    CASE st = STATE_ATTACK -> IF elapsed + 1 >= attack THEN STATE_DECAY ELSE STATE_ATTACK
      [] st = STATE_DECAY -> IF elapsed + 1 >= attack + decay THEN STATE_OFF ELSE STATE_DECAY
      [] OTHER -> STATE_OFF

\* The state after the switch.
Envelope(st, elapsed, attack, decay) ==
    CASE st = STATE_ATTACK -> IF elapsed >= attack THEN STATE_DECAY ELSE STATE_ATTACK
      [] st = STATE_DECAY -> IF elapsed >= attack + decay THEN STATE_OFF ELSE STATE_DECAY
      [] OTHER -> STATE_OFF

\* The wave offset advanced without the modulus.
WaveNextNoWrap(offset, len) == offset + 1

\* self->wave_offset = (self->wave_offset + 1) % self->wave_len;
WaveNext(offset, len) == (offset + 1) % len

\* The beat test made before the increment instead of after it.
BeatElapsedLate(elapsed, fpb) == IF elapsed = fpb THEN 0 ELSE elapsed + 1

\* if (++self->elapsed_len == frames_per_beat) { state = ATTACK; elapsed_len = 0; }
BeatElapsed(elapsed, fpb) == IF elapsed + 1 = fpb THEN 0 ELSE elapsed + 1
BeatState(st, elapsed, fpb) == IF elapsed + 1 = fpb THEN STATE_ATTACK ELSE st

\* One iteration of play's loop on the instance.
Frame(m, fpb) ==
    [m EXCEPT !.state = BeatState(Envelope(m.state, m.elapsed_len, m.attack_len, m.decay_len),
                                  m.elapsed_len, fpb),
              !.wave_offset = WaveNext(m.wave_offset, m.wave_len),
              !.elapsed_len = BeatElapsed(m.elapsed_len, fpb)]

\* memset(output, 0, (end - begin) * sizeof(float)): the indices it clears.
Cleared(b, e) == {j \in Indices : j < e - b}

\* play(self, begin, end) as a whole: the instance and the buffer it leaves.
RECURSIVE PlayLoop(_, _, _, _, _)
PlayLoop(m, out, fpb, j, e) ==
    IF j < e
    THEN PlayLoop(Frame(m, fpb), [out EXCEPT ![j] = Sample(m)], fpb, j + 1, e)
    ELSE [self |-> m, output |-> out]

play(m, out, b, e) ==
    IF m.speed = 0
    THEN [self |-> m,
          output |-> [j \in Indices |-> IF j \in Cleared(b, e) THEN Silence ELSE out[j]]]
    ELSE PlayLoop(m, out, PlayFramesPerBeat(m.bpm, m.rate), b, e)

\* ------------------------------------------------------- update_position
\* self->elapsed_len = beat_beats * frames_per_beat, with
\* frames_per_beat = (float)(60.0 / bpm * rate), beat_beats = bar_beats - floorf(bar_beats)
SyncElapsed(bpm, rate, beat) == ((beat % BeatDen) * 60 * rate) \div (BeatDen * bpm)

\* The phase thresholds with <= for <.
SyncStateInclusive(elapsed, attack, decay) ==
    IF elapsed <= attack THEN STATE_ATTACK
    ELSE IF elapsed <= attack + decay THEN STATE_DECAY
    ELSE STATE_OFF

SyncState(elapsed, attack, decay) ==
    IF elapsed < attack THEN STATE_ATTACK
    ELSE IF elapsed < attack + decay THEN STATE_DECAY
    ELSE STATE_OFF

SetBpm(m, obj) == IF obj.bpm # Absent THEN [m EXCEPT !.bpm = obj.bpm] ELSE m
\* The speed stored, with the wave rewound when the transport stops.
SetSpeedRewinding(m, obj) ==
    IF obj.speed # Absent
    THEN [m EXCEPT !.speed = obj.speed, !.wave_offset = IF obj.speed = 0 THEN 0 ELSE @]
    ELSE m

SetSpeed(m, obj) == IF obj.speed # Absent THEN [m EXCEPT !.speed = obj.speed] ELSE m
\* The bar position taken as an advance from where the instance is.
SyncAdding(m, obj) ==
    IF obj.beat # Absent
    THEN LET e == m.elapsed_len + SyncElapsed(m.bpm, m.rate, obj.beat)
         IN  [m EXCEPT !.elapsed_len = e,
                       !.state = SyncState(e, m.attack_len, m.decay_len)]
    ELSE m

\* The two assignments of a resync, for the elapsed_len e the bar position
\* comes to.
SyncAt(m, e) ==
    [m EXCEPT !.elapsed_len = e, !.state = SyncState(e, m.attack_len, m.decay_len)]

Sync(m, obj) ==
    IF obj.beat # Absent THEN SyncAt(m, SyncElapsed(m.bpm, m.rate, obj.beat)) ELSE m

\* The resync computed before the tempo is stored.
update_position_sync_first(m, obj) == SetSpeed(SetBpm(Sync(m, obj), obj), obj)

update_position(m, obj) == Sync(SetSpeed(SetBpm(m, obj), obj), obj)

\* ------------------------------------------------------------------ Init
NoWrites == [j \in Indices |-> 0]
NoWriter == [j \in Indices |-> -1]
Step(op, body) == [op |-> op, body |-> body]
NoBody == [position |-> FALSE, obj |-> NoPosition]

\* elapsed_len, wave_offset and state of an instance.
Cursor(m) == <<m.elapsed_len, m.wave_offset, m.state>>
Gone == <<>>

\* What the host's buffer can hold when it is handed to the plugin: the
\* plugin never reads it, so two contents stand for all: silence, and samples
\* that are not zero.
Stale == [w |-> 1, num |-> 1, den |-> 1]
HostBuffers == {[j \in Indices |-> Silence], [j \in Indices |-> Stale]}

Init ==
    /\ self \in {instantiate(r) : r \in Rates}
    /\ output \in HostBuffers
    /\ pc = "idle"
    /\ sample_count = 0
    /\ last_t = 0
    /\ tail = FALSE
    /\ begin = 0
    /\ end = 0
    /\ i = 0
    /\ frames_per_beat = 0
    /\ writes = NoWrites
    /\ writer = NoWriter
    /\ times = <<>>
    /\ stopped = FALSE
    /\ held = Gone
    /\ frames = 0
    /\ quiet = 0
    /\ steady = TRUE
    /\ last = Step("instantiate", NoBody)

\* -------------------------------------------------------------- activate
\* The reset with the wave offset left where it was.
ResetKeepingWave(m) == [m EXCEPT !.elapsed_len = 0, !.state = STATE_OFF]

\* The three assignments of activate.
Reset(m) == [m EXCEPT !.elapsed_len = 0, !.wave_offset = 0, !.state = STATE_OFF]

activate ==
    /\ pc = "idle"
    /\ self' = Reset(self)
    /\ frames' = 0
    /\ quiet' = 0
    /\ steady' = TRUE
    /\ last' = Step("activate", NoBody)
    /\ UNCHANGED <<output, pc, sample_count, last_t, tail, begin, end, i, frames_per_beat,
                   writes, writer, times, stopped, held>>

\* ------------------------------------------------------------------- run
\* Where run continues when the play() it called returns.
AfterPlay(isTail) == IF isTail THEN "done" ELSE "update"

\* The call of play with frames_per_beat kept from the block's first call.
CallPlayCached(b, e, isTail) ==
    /\ tail' = isTail
    /\ frames_per_beat' = IF frames_per_beat = 0
                            THEN PlayFramesPerBeat(self.bpm, self.rate)
                            ELSE frames_per_beat
    /\ begin' = b
    /\ end' = e
    /\ i' = b
    /\ pc' = IF self.speed # 0 /\ b >= e THEN AfterPlay(isTail) ELSE "play"

\* The call play(self, b, e): it returns at once when there is nothing to
\* render with the transport rolling; otherwise it is left at its first step.
CallPlay(b, e, isTail) ==
    /\ tail' = isTail
    /\ frames_per_beat' = PlayFramesPerBeat(self.bpm, self.rate)
    /\ begin' = b
    /\ end' = e
    /\ i' = b
    /\ pc' = IF self.speed # 0 /\ b >= e THEN AfterPlay(isTail) ELSE "play"

RunBegin(n) ==
    /\ pc = "idle"
    /\ frames + n <= MaxFrames
    /\ pc' = "events"
    /\ sample_count' = n
    /\ last_t' = 0
    /\ stopped' = (self.speed = 0)
    /\ held' = IF self.speed = 0 THEN Cursor(self) ELSE Gone
    /\ last' = Step("run", NoBody)
    /\ UNCHANGED <<self, output, tail, begin, end, i, frames_per_beat, writes, writer,
                   times, frames, steady, quiet>>

\* The loop finds an event at frame t: play(self, last_t, ev->time.frames).
RunEvent(t) ==
    /\ pc = "events"
    /\ Len(times) < MaxEvents
    /\ CallPlay(last_t, t, FALSE)
    /\ times' = Append(times, t)
    /\ last' = Step("call", NoBody)
    /\ UNCHANGED <<self, output, sample_count, last_t, writes, writer, stopped, held,
                   frames, steady, quiet>>

\* The sequence is at its end: play(self, last_t, sample_count).
RunTail ==
    /\ pc = "events"
    /\ CallPlay(last_t, sample_count, TRUE)
    /\ last' = Step("call", NoBody)
    /\ UNCHANGED <<self, output, sample_count, last_t, writes, writer, times, stopped,
                   held, frames, steady, quiet>>

\* The number of events applied before the play() in progress.
Applied == IF tail THEN Len(times) ELSE Len(times) - 1

\* play with the transport stopped, had it kept the wave running.
PlayStoppedAdvancing ==
    /\ pc = "play"
    /\ self.speed = 0
    /\ output' = [j \in Indices |-> IF j \in Cleared(begin, end) THEN Silence ELSE output[j]]
    /\ writes' = [j \in Indices |-> IF j \in Cleared(begin, end) THEN writes[j] + 1 ELSE writes[j]]
    /\ writer' = [j \in Indices |-> IF j \in Cleared(begin, end) THEN Applied ELSE writer[j]]
    /\ self' = [self EXCEPT !.wave_offset = (@ + (end - begin)) % self.wave_len]
    /\ pc' = AfterPlay(tail)
    /\ last' = Step("memset", NoBody)
    /\ UNCHANGED <<sample_count, last_t, tail, begin, end, i, frames_per_beat,
                   times, stopped, held, frames, steady, quiet>>

\* play with the transport stopped: the memset and the return.
PlayStopped ==
    /\ pc = "play"
    /\ self.speed = 0
    /\ output' = [j \in Indices |-> IF j \in Cleared(begin, end) THEN Silence ELSE output[j]]
    /\ writes' = [j \in Indices |-> IF j \in Cleared(begin, end) THEN writes[j] + 1 ELSE writes[j]]
    /\ writer' = [j \in Indices |-> IF j \in Cleared(begin, end) THEN Applied ELSE writer[j]]
    /\ pc' = AfterPlay(tail)
    /\ last' = Step("memset", NoBody)
    /\ UNCHANGED <<self, sample_count, last_t, tail, begin, end, i, frames_per_beat,
                   times, stopped, held, frames, steady, quiet>>

\* One iteration of play's loop, and the return after the last one.
PlayFrame ==
    /\ pc = "play"
    /\ self.speed # 0
    /\ i < end
    /\ output' = [output EXCEPT ![i] = Sample(self)]
    /\ writes' = [writes EXCEPT ![i] = @ + 1]
    /\ writer' = [writer EXCEPT ![i] = Applied]
    /\ self' = Frame(self, frames_per_beat)
    /\ i' = i + 1
    /\ pc' = IF i + 1 < end THEN "play" ELSE AfterPlay(tail)
    /\ frames' = frames + 1
    /\ quiet' = IF self.elapsed_len + 1 = frames_per_beat THEN 0 ELSE quiet + 1
    /\ last' = Step("frame", NoBody)
    /\ UNCHANGED <<sample_count, last_t, tail, begin, end, frames_per_beat, times,
                   stopped, held, steady>>

\* The body of the event is examined and, if it is a time:Position object,
\* update_position is called; then last_t = ev->time.frames.
RunUpdate(body) ==
    /\ pc = "update"
    /\ self' = IF body.position THEN update_position(self, body.obj) ELSE self
    /\ steady' = (steady /\ self'.bpm = self.bpm /\ body.obj.beat = Absent)
    /\ quiet' = IF self' = self THEN quiet ELSE 0
    /\ stopped' = (stopped /\ self'.speed = 0)
    /\ held' = IF self'.speed = 0 /\ body.obj.beat = Absent THEN held ELSE Gone
    /\ last_t' = end
    /\ pc' = "events"
    /\ last' = Step("update", body)
    /\ UNCHANGED <<output, sample_count, tail, begin, end, i, frames_per_beat,
                   writes, writer, times, frames>>

\* run has returned; the host takes the block and connects the buffer for
\* the next one (connect_port), whose content is the host's.
connect_port(data) ==
    /\ pc = "done"
    /\ output' = data
    /\ pc' = "idle"
    /\ sample_count' = 0
    /\ last_t' = 0
    /\ tail' = FALSE
    /\ begin' = 0
    /\ end' = 0
    /\ i' = 0
    /\ frames_per_beat' = 0
    /\ writes' = NoWrites
    /\ writer' = NoWriter
    /\ times' = <<>>
    /\ stopped' = FALSE
    /\ held' = Gone
    /\ last' = Step("connect", NoBody)
    /\ UNCHANGED <<self, frames, steady, quiet>>

Next ==
    \/ activate
    \/ \E n \in 0..MaxBlock : RunBegin(n)
    \/ \E t \in last_t..sample_count : RunEvent(t)
    \/ RunTail
    \/ PlayStopped
    \/ PlayFrame
    \/ \E body \in Bodies : RunUpdate(body)
    \/ \E data \in HostBuffers : connect_port(data)

Spec == Init /\ [][Next]_vars

\* ------------------------------------------------- instantiate, by rate
\* A second specification: the host creates instances at any rate and frees
\* them.  instantiate tests its allocation and the host's features and
\* nothing else, so it returns an instance for every rate.  The rates drawn
\* are the integers from -13, the least for which every conversion to
\* uint32_t in instantiate is defined (all three lengths are 0 there), to
\* MaxRate.
NULL == "NULL"
HostRates == (0 - 13)..MaxRate

CfgInit ==
    /\ self = NULL
    /\ output = [j \in Indices |-> Silence]
    /\ pc = "host"
    /\ sample_count = 0
    /\ last_t = 0
    /\ tail = FALSE
    /\ begin = 0
    /\ end = 0
    /\ i = 0
    /\ frames_per_beat = 0
    /\ writes = NoWrites
    /\ writer = NoWriter
    /\ times = <<>>
    /\ stopped = FALSE
    /\ held = Gone
    /\ frames = 0
    /\ quiet = 0
    /\ steady = TRUE
    /\ last = Step("host", NoBody)

\* instantiate(descriptor, rate, path, features) returns the instance.
Instantiated(rate) ==
    /\ pc = "host"
    /\ self' = instantiate(rate)
    /\ pc' = "created"
    /\ last' = Step("instantiate", NoBody)
    /\ UNCHANGED <<output, sample_count, last_t, tail, begin, end, i, frames_per_beat,
                   writes, writer, times, stopped, held, frames, steady, quiet>>

\* instantiate returns NULL: calloc failed, or the host has no URID map.
InstantiateNull ==
    /\ pc = "host"
    /\ last.op # "null"
    /\ last' = Step("null", NoBody)
    /\ UNCHANGED <<self, output, pc, sample_count, last_t, tail, begin, end, i,
                   frames_per_beat, writes, writer, times, stopped, held, frames, steady,
                   quiet>>

cleanup ==
    /\ pc = "created"
    /\ self' = NULL
    /\ pc' = "host"
    /\ last' = Step("cleanup", NoBody)
    /\ UNCHANGED <<output, sample_count, last_t, tail, begin, end, i, frames_per_beat,
                   writes, writer, times, stopped, held, frames, steady, quiet>>

CfgNext ==
    \/ \E rate \in HostRates : Instantiated(rate)
    \/ InstantiateNull
    \/ cleanup

SpecCfg == CfgInit /\ [][CfgNext]_vars

\* ------------------------------------------- playback from a beat boundary
\* A third specification: one play() over a long range with the transport
\* rolling, entered at a beat boundary (the attack at elapsed_len 0), and at
\* any frame a resync whose bar position comes to the elapsed_len the
\* instance is at.  The samples are not kept.
AtBeat(rate, bpm, offset) ==
    [instantiate(rate) EXCEPT !.bpm = bpm, !.speed = 1, !.state = STATE_ATTACK,
                              !.wave_offset = offset]

TickInit ==
    /\ self \in {AtBeat(r, b, o) : r \in Rates, b \in Bpms, o \in {0, 1}}
    /\ output = [j \in Indices |-> Silence]
    /\ pc = "play"
    /\ sample_count = 0
    /\ last_t = 0
    /\ tail = TRUE
    /\ begin = 0
    /\ end = 0
    /\ i = 0
    /\ frames_per_beat = PlayFramesPerBeat(self.bpm, self.rate)
    /\ writes = NoWrites
    /\ writer = NoWriter
    /\ times = <<>>
    /\ stopped = FALSE
    /\ held = Gone
    /\ frames = 0
    /\ quiet = 0
    /\ steady = TRUE
    /\ last = Step("call", NoBody)

\* One iteration of play's loop.
TickFrame ==
    /\ pc = "play"
    /\ frames < MaxTick
    /\ self' = Frame(self, frames_per_beat)
    /\ frames' = frames + 1
    /\ quiet' = IF self.elapsed_len + 1 = frames_per_beat THEN 0 ELSE quiet + 1
    /\ last' = Step("frame", NoBody)
    /\ UNCHANGED <<output, pc, sample_count, last_t, tail, begin, end, i, frames_per_beat,
                   writes, writer, times, stopped, held, steady>>

\* update_position with a bar position that comes to the current elapsed_len.
TickResync ==
    /\ pc = "play"
    /\ self' = SyncAt(self, self.elapsed_len)
    /\ pc' = "synced"
    /\ steady' = FALSE
    /\ last' = Step("resync", NoBody)
    /\ UNCHANGED <<output, sample_count, last_t, tail, begin, end, i, frames_per_beat,
                   writes, writer, times, stopped, held, frames, quiet>>

TickNext ==
    \/ TickFrame
    \/ TickResync

SpecTick == TickInit /\ [][TickNext]_vars

\* ================================================================ claims
\* The frames of the block in progress.
Block == 0..(sample_count - 1)

\* The event just handled carried a time:Position object with this field.
Updated == last.op = "update" /\ last.body.position
Resynced == Updated /\ last.body.obj.beat # Absent

\* C1: when run returns, every output index in [0, sample_count) has been
\* written exactly once and no index outside it has been written, whatever
\* the speed was in each slice.
C1_EveryIndexOnce ==
    pc = "done" => \A j \in Indices : writes[j] = IF j \in Block THEN 1 ELSE 0

\* C2: when the speed was 0 at the call of run and no event of the block made
\* it nonzero, every output sample of the block is 0 when run returns.
C2_StoppedBlockSilent ==
    (pc = "done" /\ stopped) => \A j \in Block : IsZero(output[j])

\* C3: a play() with speed 0 leaves elapsed_len, wave_offset and state as
\* they were; and when run returns from a block that was stopped throughout
\* and carried no bar position, the three are what they were at its call.
C3_StoppedFreezesCursor ==
    /\ []((pc = "done" /\ held # Gone) => Cursor(self) = held)
    /\ [][last'.op = "memset" => Cursor(self') = Cursor(self)]_vars

\* C3 witness: a stopped block of two frames with an event inside it has
\* returned, the tick frozen in its decay and the wave at offset 1.
C3_Witness ==
    /\ pc = "done" /\ held # Gone /\ last.op = "memset"
    /\ sample_count = 2 /\ times = <<1>>
    /\ self.state = STATE_DECAY /\ self.wave_offset = 1 /\ self.elapsed_len > 0

\* C4: when run returns, the sample at every index j of the block was
\* produced after exactly the events with offset <= j had been applied, and
\* before any later one: each event takes effect at its offset.
C4_EventsTakeEffectAtOffset ==
    pc = "done" =>
        \A j \in Block : writer[j] = Cardinality({k \in 1..Len(times) : times[k] <= j})

\* C5: after an event carrying a bar position, elapsed_len is the integer
\* part of (the fractional part of the position) * (60 / bpm) * rate and the
\* state is ATTACK below attack_len, DECAY below attack_len + decay_len and
\* OFF from there on; at 48000 Hz, 120 bpm, position 1.5 that is 12000, OFF.
C5_HardResync ==
    /\ Resynced =>
        LET frac == last.body.obj.beat % BeatDen
            e == (frac * 60 * self.rate) \div (BeatDen * self.bpm)
        IN  /\ self.elapsed_len = e
            /\ e < self.attack_len => self.state = STATE_ATTACK
            /\ (self.attack_len <= e /\ e < self.attack_len + self.decay_len)
                   => self.state = STATE_DECAY
            /\ e >= self.attack_len + self.decay_len => self.state = STATE_OFF
    /\ attack_len(48000) = 240 /\ decay_len(48000) = 3600
    /\ SyncElapsed(120, 48000, BeatDen + BeatDen \div 2) = 12000
    /\ SyncState(12000, 240, 3600) = STATE_OFF

\* C5 witness: a bar position of 1 + 20/128 has arrived in the middle of a
\* block at 1920 bpm, and put the instance at frame 8, in its decay.
C5_Witness ==
    /\ Resynced /\ last.body.obj.beat = 148 /\ self.bpm = 1920
    /\ self.elapsed_len = 8 /\ self.state = STATE_DECAY /\ last_t = 1 /\ frames > 0

\* C6: since activate, with the tempo unchanged and no bar position applied,
\* elapsed_len is the number of frames played modulo frames per beat; and the
\* frame whose increment brings elapsed_len to frames_per_beat leaves it at 0
\* with the state ATTACK, whatever the state was.
C6_BeatCounter ==
    /\ [](LET fpb == PlayFramesPerBeat(self.bpm, self.rate)
          IN  (steady /\ fpb >= 1) => self.elapsed_len = frames % fpb)
    /\ [][(last'.op = "frame" /\ self.elapsed_len + 1 = frames_per_beat)
             => (self'.elapsed_len = 0 /\ self'.state = STATE_ATTACK)]_vars

\* C6 witness: four frames played since activate at 30720 bpm (3 frames per
\* beat), in blocks cut by events: the tick began at frame 3 and the
\* instance is one frame into it.
C6_Witness ==
    /\ steady /\ frames = 4 /\ PlayFramesPerBeat(self.bpm, self.rate) = 3
    /\ self.elapsed_len = 1 /\ self.state = STATE_ATTACK
    /\ last.op = "frame" /\ Len(times) > 0

\* C7: between operations (after activate, after each play, after each
\* event) elapsed_len is below frames per beat, (60 / bpm) * rate.
C7_ElapsedBelowBeat ==
    pc \in {"idle", "events", "update", "done"}
        => self.elapsed_len * self.bpm < 60 * self.rate

\* The phase changes of a tick.
TickOrder ==
    {<<STATE_ATTACK, STATE_DECAY>>, <<STATE_DECAY, STATE_OFF>>, <<STATE_OFF, STATE_ATTACK>>}

\* A step of playback (activate apart) changes the phase out of the order
\* of a tick.
OutOfOrder ==
    /\ last'.op # "activate"
    /\ self'.state # self.state
    /\ <<self.state, self'.state>> \notin TickOrder

\* C8 as claimed: in playback the phase changes only along ATTACK -> DECAY,
\* DECAY -> OFF and OFF -> ATTACK, except by an event carrying a bar position.
C8_OnlyTickOrder ==
    [][OutOfOrder => (last'.op = "update" /\ last'.body.position /\ last'.body.obj.beat # Absent)]_vars

\* C8 amended: in playback the phase changes only along ATTACK -> DECAY,
\* DECAY -> OFF, OFF -> ATTACK, and DECAY -> ATTACK on the frame that brings
\* elapsed_len to frames_per_beat (reset to 0), which needs frames_per_beat
\* <= attack_len + decay_len + 1; any other change is made by an event
\* carrying a bar position.
C8_TickOrderOrRestart ==
    [][OutOfOrder =>
          \/ last'.op = "update" /\ last'.body.position /\ last'.body.obj.beat # Absent
          \/ /\ last'.op = "frame"
             /\ self.state = STATE_DECAY /\ self'.state = STATE_ATTACK
             /\ self.elapsed_len + 1 = frames_per_beat /\ self'.elapsed_len = 0
             /\ frames_per_beat <= self.attack_len + self.decay_len + 1]_vars

\* C8 witness: at 1920 bpm (55 frames per beat, fewer than the 140 of a
\* tick) a frame has written a decay sample and ended at the beat, in ATTACK.
C8_Witness ==
    /\ pc = "done" /\ last.op = "frame" /\ frames_per_beat = 55
    /\ self.state = STATE_ATTACK /\ self.elapsed_len = 0
    /\ output[sample_count - 1].den = self.decay_len

\* C9: wave_offset is in [0, wave_len) and is the number of frames played
\* since activate modulo wave_len, whatever events came in between.
C9_WaveOffset ==
    /\ self.wave_offset \in 0..(self.wave_len - 1)
    /\ self.wave_offset = frames % self.wave_len

\* C9 witness: three frames played since activate, with a resync among
\* them that restarted the tick: the wave is at offset 1.
C9_Witness ==
    /\ frames = 3 /\ ~steady /\ self.wave_offset = 1 /\ self.wave_len = 2
    /\ self.state = STATE_ATTACK /\ self.elapsed_len = 0 /\ last.op = "frame"

\* The object with only the tempo, and with only the bar position, of obj.
TempoOnly(obj) == [bpm |-> obj.bpm, speed |-> Absent, beat |-> Absent]
BeatOnly(obj) == [bpm |-> Absent, speed |-> Absent, beat |-> obj.beat]

\* C10: an event carrying tempo and bar position leaves elapsed_len and
\* state as the tempo alone followed by the bar position alone would have,
\* and as it would from any other tempo stored before it.
C10_TempoBeforeResync ==
    [][(last'.op = "update" /\ last'.body.position
          /\ last'.body.obj.bpm # Absent /\ last'.body.obj.beat # Absent)
       => LET obj == last'.body.obj
              InTurn(m) == update_position(update_position(m, TempoOnly(obj)), BeatOnly(obj))
          IN  /\ self'.elapsed_len = InTurn(self).elapsed_len
              /\ self'.state = InTurn(self).state
              /\ \A b \in Bpms :
                    LET other == update_position([self EXCEPT !.bpm = b], obj)
                    IN  /\ other.elapsed_len = self'.elapsed_len
                        /\ other.state = self'.state]_vars

\* C10 witness: one event has brought the tempo 1920 and the bar position
\* 127/128 to an instance playing at another frame: it is at frame 54 of 55.
C10_Witness ==
    /\ Updated /\ last.body.obj.bpm = 1920 /\ last.body.obj.beat = 127
    /\ self.elapsed_len = 54 /\ self.state = STATE_DECAY /\ self.speed = 1 /\ frames > 0

\* C11: after an event carrying a time:Position object, applying the same
\* object once more, with no frame played in between, leaves the instance
\* (bpm, speed, elapsed_len and state with it) as it is.
C11_ResyncIdempotent ==
    Updated => update_position(self, last.body.obj) = self

\* C11 witness: two events at the same frame of a block, the second with
\* tempo, speed and bar position, have been applied to a playing instance.
C11_Witness ==
    /\ Resynced /\ last.body.obj.bpm = 1920 /\ last.body.obj.speed = 1
    /\ last.body.obj.beat = 127 /\ self.elapsed_len = 54
    /\ Len(times) = 2 /\ times[1] = times[2] /\ frames > 0

\* The fields of the instance that activate does not name.
Configured(m) == <<m.rate, m.bpm, m.speed, m.wave_len, m.attack_len, m.decay_len>>

\* C12: activate leaves elapsed_len = 0, wave_offset = 0 and state = OFF from
\* any state, leaves bpm, speed, rate and the three lengths as they were, and
\* a second activate changes nothing.
C12_ActivateResets ==
    /\ [][last'.op = "activate"
            => (Cursor(self') = <<0, 0, STATE_OFF>> /\ Configured(self') = Configured(self))]_vars
    /\ [](pc = "idle" => Reset(Reset(self)) = Reset(self))

\* C12 witness: activate has been called on an instance that events had set
\* playing at 30720 bpm.
C12_Witness ==
    /\ last.op = "activate" /\ self.speed = 1 /\ self.bpm = 30720
    /\ Cursor(self) = <<0, 0, STATE_OFF>> /\ frames = 0

\* C13: instantiate fails for a rate <= 0: an instance exists only for a
\* positive rate.
C13_RejectsNonPositiveRate ==
    pc = "created" => self.rate > 0

\* C14 as claimed: for a positive rate the table length is rate / 880
\* rounded to the nearest integer.
C14_WaveLenRounded ==
    (pc = "created" /\ self.rate > 0)
        => self.wave_len = (2 * self.rate + ToneFreq) \div (2 * ToneFreq)

\* C14 amended: for a positive rate the table length is the integer part of
\* rate / 880.
C14_WaveLenFloor ==
    (pc = "created" /\ self.rate > 0)
        => (self.wave_len * ToneFreq <= self.rate /\ self.rate < (self.wave_len + 1) * ToneFreq)

\* C14 witness: an instance at 1320 Hz, where rate / 880 is 1.5: its table
\* has 1 entry.
C14_Witness ==
    pc = "created" /\ self.rate = 1320 /\ self.wave_len = 1

\* C15: play computes frames_per_beat from the bpm the instance holds at
\* the call, so the frames after a tempo message are tested against the new
\* tempo: a frame starts a tick exactly when elapsed_len + 1 is the frames
\* per beat of the current bpm, and otherwise advances elapsed_len by one.
C15_NextFrameUsesNewBpm ==
    /\ [](pc = "play" => frames_per_beat = PlayFramesPerBeat(self.bpm, self.rate))
    /\ [][last'.op = "frame"
            => IF self.elapsed_len + 1 = PlayFramesPerBeat(self.bpm, self.rate)
               THEN self'.elapsed_len = 0 /\ self'.state = STATE_ATTACK
               ELSE self'.elapsed_len = self.elapsed_len + 1]_vars

\* C15 witness: the tempo went from 120 to 30720 (3 frames per beat) before
\* any frame was played, and the third frame has started a tick.
C15_Witness ==
    /\ last.op = "frame"
    /\ ~steady
    /\ self.bpm = 30720
    /\ frames = 3
    /\ self.elapsed_len = 0
    /\ self.state = STATE_ATTACK

\* C16: an event changes bpm only through a tempo field, speed only through
\* a speed field, elapsed_len and state only through a bar position; it never
\* changes wave_offset, rate or the three lengths; and an event that is not a
\* time:Position object, or one with none of the fields, changes nothing.
C16_FieldByField ==
    [][last'.op = "update"
        => LET obj == last'.body.obj
           IN  /\ (~last'.body.position => self' = self)
               /\ (obj = NoPosition => self' = self)
               /\ (obj.bpm = Absent => self'.bpm = self.bpm)
               /\ (obj.speed = Absent => self'.speed = self.speed)
               /\ (obj.beat = Absent => (/\ self'.elapsed_len = self.elapsed_len
                                         /\ self'.state = self.state))
               /\ self'.wave_offset = self.wave_offset
               /\ self'.rate = self.rate
               /\ self'.wave_len = self.wave_len
               /\ self'.attack_len = self.attack_len
               /\ self'.decay_len = self.decay_len]_vars

\* C16 witness: a message with the speed alone stops the transport after one
\* frame of a tick: the cursor stays at elapsed_len 1, wave_offset 1.
C16_Witness ==
    /\ Updated
    /\ last.body.obj = [bpm |-> Absent, speed |-> 0, beat |-> Absent]
    /\ self.speed = 0
    /\ self.elapsed_len = 1
    /\ self.wave_offset = 1
    /\ frames = 1

\* C17: the envelope gain is within [0, 1]: in the attack elapsed_len is at
\* most attack_len, in the decay it is between attack_len and attack_len +
\* decay_len, and every sample in the buffer has a gain between 0 and 1.
C17_GainInUnitRange ==
    /\ self.state = STATE_ATTACK => self.elapsed_len <= self.attack_len
    /\ self.state = STATE_DECAY
         => (/\ self.attack_len <= self.elapsed_len
             /\ self.elapsed_len <= self.attack_len + self.decay_len)
    /\ \A j \in Indices : 0 <= output[j].num /\ output[j].num <= output[j].den

\* C17 witness: a resync into the decay at elapsed_len 137 and three frames:
\* the decay is at its last value, attack_len + decay_len = 140, gain 0.
C17_Witness ==
    /\ last.op = "frame"
    /\ frames = 3
    /\ self.state = STATE_DECAY
    /\ self.elapsed_len = self.attack_len + self.decay_len
    /\ \E j \in Indices : output[j].den = self.decay_len /\ output[j].num = 1

\* C18: while the transport rolls, a tick starts within frames_per_beat
\* frames of every state: the frames played since the last start of a tick,
\* the last event that changed the instance, or activate, stay below the
\* frames per beat of the current bpm.
C18_TickWithinBeat ==
    self.speed # 0 => quiet < PlayFramesPerBeat(self.bpm, self.rate)

\* C19: slicing a render makes no difference: at the head of run's loop, for
\* every offset t left in the block, play up to t followed by play from t to
\* the end leaves the same samples on the range and the same elapsed_len,
\* wave_offset and state as one play over the whole range, at any speed.
C19_SlicingInvariant ==
    pc = "events"
        => \A t \in last_t..sample_count :
              LET whole == play(self, output, last_t, sample_count)
                  first == play(self, output, last_t, t)
                  both == play(first.self, first.output, t, sample_count)
              IN  /\ Cursor(both.self) = Cursor(whole.self)
                  /\ \A j \in last_t..(sample_count - 1) : both.output[j] = whole.output[j]

\* C20 as claimed: in playback from a beat boundary, a resync to the current
\* elapsed_len leaves the phase as the renderer has it, at every elapsed_len.
C20_ResyncKeepsPhase ==
    [][last'.op = "resync" => self'.state = self.state]_vars

\* Two samples with the same value.
SameSample(s, t) ==
    \/ IsZero(s) /\ IsZero(t)
    \/ s.w = t.w /\ s.num * t.den = t.num * s.den

\* C20 amended: the resync leaves the phase as it is at every elapsed_len
\* except attack_len, where the renderer is still in the attack and the
\* resync gives the decay, and attack_len + decay_len, where the renderer is
\* still in the decay and the resync gives off; at these two the next frame
\* writes the same sample and leaves the same instance either way.
C20_PhaseAgreesOffBoundaries ==
    [][last'.op = "resync"
        => /\ (self'.state # self.state)
                 <=> (self.elapsed_len \in {self.attack_len, self.attack_len + self.decay_len})
           /\ self'.elapsed_len = self.elapsed_len
           /\ SameSample(Sample(self'), Sample(self))
           /\ Frame(self', frames_per_beat) = Frame(self, frames_per_beat)]_vars

\* C20 witness: 8 frames after the beat at 120 bpm the renderer is at
\* elapsed_len = attack_len, and the resync has put it in the decay.
C20_Witness ==
    /\ last.op = "resync"
    /\ frames = 8
    /\ self.bpm = 120
    /\ self.elapsed_len = self.attack_len
    /\ self.state = STATE_DECAY

====
